---- MODULE Spec2Model ----
(***************************************************************************)
(* Model of backend/src/config/db.ts: connectDB, the retrying MongoDB      *)
(* connection bootstrap.  Each invocation of connectDB (the outermost call *)
(* together with the recursive calls it makes) is one entry of the         *)
(* per-invocation functions below.  Synchronous segments of the async      *)
(* function are single actions; the awaits are the points between them.    *)
(***************************************************************************)
EXTENDS Integers, Sequences, FiniteSets

\* ---- program constants (db.ts lines 4, 5, 23) ----
MAX_RETRIES == 5
RETRY_DELAY == 5000
EXIT_CODE == 1

\* ---- bounds of the model ----
MaxBudget == 3
MaxHostTurns == 2
NumInvocations == 2

Invocations == 1..NumInvocations
\* the invocation made by process startup
Main == 1

\* arguments a caller may pass: an explicit budget, or none (the default
\* parameter value MAX_RETRIES, line 7)
Budgets == (0..MaxBudget) \cup {MAX_RETRIES}

VARIABLES
    pc,         \* supervisor state of each invocation
    budget,     \* the retries argument the outermost call was started with
    retries,    \* the retries parameter of the current (innermost) frame
    attempts,   \* number of mongoose.connect calls issued
    inflight,   \* number of mongoose.connect promises not yet settled
    outcomes,   \* settled connect calls (result, retries), in order
    promise,    \* state of the promise returned by the outermost call
    timer,      \* duration of the pending setTimeout, 0 when none
    delays,     \* durations of the timers that were armed, in order
    elapsed,    \* number of timers that have fired
    log,        \* console lines written by the invocation, in order
    exited,     \* process.exit has been called
    exitCode,   \* status passed to process.exit
    hostTurns,  \* event-loop turns taken by other tasks of the process
    makeReq,    \* last command line given to make (Makefile), or NoRequest
    makeOut,    \* the commands that run of make issued, in order
    psReq,      \* last command line given to Makefile.ps1, or NoRequest
    psOut       \* the commands that run of Makefile.ps1 issued, in order

\* the state of the two command dispatchers; connectDB never touches it
dispatchVars == <<makeReq, makeOut, psReq, psOut>>

\* the state of the backend process; the dispatchers never touch it
supervisorVars == <<pc, budget, retries, attempts, inflight, outcomes, promise,
                    timer, delays, elapsed, log, exited, exitCode, hostTurns>>

vars == <<pc, budget, retries, attempts, inflight, outcomes, promise, timer,
          delays, elapsed, log, exited, exitCode, hostTurns,
          makeReq, makeOut, psReq, psOut>>

\* no dispatcher has been run yet
NoRequest == [cmd |-> "", mode |-> "", service |-> "", args |-> ""]

States == {"Idle", "Attempting", "Retrying", "Connected", "Exhausted"}
Terminal == {"Connected", "Exhausted"}

\* a settled connect call: its result and the value of retries it ran under
Outcome(res, r) == [result |-> res, remaining |-> r]

\* ---- console lines ----
ErrorLine == [kind |-> "error", num |-> 0, total |-> 0]
ConnectedLine == [kind |-> "connected", num |-> 0, total |-> 0]
FatalLine == [kind |-> "fatal", num |-> 0, total |-> 0]

\* line 17: `Retrying connection... (${MAX_RETRIES - retries + 1}/${MAX_RETRIES})`
RetryLine(r) ==
    [kind |-> "retry", num |-> MAX_RETRIES - r + 1, total |-> MAX_RETRIES]

ShouldRetryInclusive(r) == r >= 0
ShouldRetryStrict(r) == r > 1
\* line 16: if (retries > 0)
ShouldRetry(r) == r > 0

NextRetriesSkip(r) == r - 2
\* line 19: connectDB(retries - 1)
NextRetries(r) == r - 1

DelayForBackoff(r) == RETRY_DELAY * (MAX_RETRIES - r + 1)
\* line 18: setTimeout(resolve, RETRY_DELAY)
DelayFor(r) == RETRY_DELAY

Init ==
    /\ pc = [i \in Invocations |-> "Idle"]
    /\ budget = [i \in Invocations |-> 0]
    /\ retries = [i \in Invocations |-> 0]
    /\ attempts = [i \in Invocations |-> 0]
    /\ inflight = [i \in Invocations |-> 0]
    /\ outcomes = [i \in Invocations |-> <<>>]
    /\ promise = [i \in Invocations |-> "none"]
    /\ timer = [i \in Invocations |-> 0]
    /\ delays = [i \in Invocations |-> <<>>]
    /\ elapsed = [i \in Invocations |-> 0]
    /\ log = [i \in Invocations |-> <<>>]
    /\ exited = FALSE
    /\ exitCode = 0
    /\ hostTurns = 0
    /\ makeReq = NoRequest
    /\ makeOut = <<>>
    /\ psReq = NoRequest
    /\ psOut = <<>>

\* line 7-9: the caller invokes connectDB(n); the body runs synchronously up
\* to the await of mongoose.connect
Call(i) ==
    /\ ~exited
    /\ pc[i] = "Idle"
    /\ \E n \in Budgets :
        /\ budget' = [budget EXCEPT ![i] = n]
        /\ retries' = [retries EXCEPT ![i] = n]
    /\ pc' = [pc EXCEPT ![i] = "Attempting"]
    /\ attempts' = [attempts EXCEPT ![i] = @ + 1]
    /\ inflight' = [inflight EXCEPT ![i] = @ + 1]
    /\ promise' = [promise EXCEPT ![i] = "pending"]
    /\ UNCHANGED <<outcomes, timer, delays, elapsed, log, exited, exitCode,
                   hostTurns>>
    /\ UNCHANGED dispatchVars

ConnectResolvesFallsThrough(i) ==
    /\ ~exited
    /\ pc[i] = "Attempting"
    /\ inflight[i] > 0
    /\ inflight' = [inflight EXCEPT ![i] = @ - 1]
    /\ outcomes' = [outcomes EXCEPT ![i] = Append(@, Outcome("ok", retries[i]))]
    /\ log' = [log EXCEPT ![i] = Append(@, ConnectedLine)]
    /\ IF ShouldRetry(retries[i])
       THEN /\ pc' = [pc EXCEPT ![i] = "Retrying"]
            /\ timer' = [timer EXCEPT ![i] = DelayFor(retries[i])]
            /\ UNCHANGED promise
       ELSE /\ pc' = [pc EXCEPT ![i] = "Connected"]
            /\ promise' = [promise EXCEPT ![i] = "resolved"]
            /\ UNCHANGED timer
    /\ UNCHANGED <<budget, retries, attempts, delays, elapsed, exited,
                   exitCode, hostTurns>>
    /\ UNCHANGED dispatchVars

\* lines 9-12: mongoose.connect resolves; the success line is logged and the
\* async function returns, which resolves the whole chain of promises
ConnectResolves(i) ==
    /\ ~exited
    /\ pc[i] = "Attempting"
    /\ inflight[i] > 0
    /\ inflight' = [inflight EXCEPT ![i] = @ - 1]
    /\ outcomes' = [outcomes EXCEPT ![i] = Append(@, Outcome("ok", retries[i]))]
    /\ log' = [log EXCEPT ![i] = Append(@, ConnectedLine)]
    /\ pc' = [pc EXCEPT ![i] = "Connected"]
    /\ promise' = [promise EXCEPT ![i] = "resolved"]
    /\ UNCHANGED <<budget, retries, attempts, timer, delays, elapsed, exited,
                   exitCode, hostTurns>>
    /\ UNCHANGED dispatchVars

ScheduleRetryNoResolve(i) ==
    /\ log' = [log EXCEPT ![i] = @ \o <<ErrorLine, RetryLine(retries[i])>>]
    /\ delays' = [delays EXCEPT ![i] = Append(@, DelayFor(retries[i]))]
    /\ inflight' = [inflight EXCEPT ![i] = @ - 1]
    /\ pc' = [pc EXCEPT ![i] = "Retrying"]
    /\ UNCHANGED <<timer, retries, attempts, promise, exited, exitCode>>

ScheduleRetryNoAwait(i) ==
    /\ log' = [log EXCEPT ![i] = @ \o <<ErrorLine, RetryLine(retries[i])>>]
    /\ timer' = [timer EXCEPT ![i] = DelayFor(retries[i])]
    /\ delays' = [delays EXCEPT ![i] = Append(@, DelayFor(retries[i]))]
    /\ retries' = [retries EXCEPT ![i] = NextRetries(@)]
    /\ attempts' = [attempts EXCEPT ![i] = @ + 1]
    /\ inflight' = inflight
    /\ pc' = [pc EXCEPT ![i] = "Attempting"]
    /\ UNCHANGED <<promise, exited, exitCode>>

\* lines 14, 17-18: the error and the retry line are logged and the delay
\* timer is armed; the function suspends on the timer's promise
ScheduleRetry(i) ==
    /\ log' = [log EXCEPT ![i] = @ \o <<ErrorLine, RetryLine(retries[i])>>]
    /\ timer' = [timer EXCEPT ![i] = DelayFor(retries[i])]
    /\ delays' = [delays EXCEPT ![i] = Append(@, DelayFor(retries[i]))]
    /\ inflight' = [inflight EXCEPT ![i] = @ - 1]
    /\ pc' = [pc EXCEPT ![i] = "Retrying"]
    /\ UNCHANGED <<retries, attempts, promise, exited, exitCode>>

ExhaustRethrow(i) ==
    /\ log' = [log EXCEPT ![i] = @ \o <<ErrorLine, FatalLine>>]
    /\ promise' = [promise EXCEPT ![i] = "rejected"]
    /\ inflight' = [inflight EXCEPT ![i] = @ - 1]
    /\ pc' = [pc EXCEPT ![i] = "Exhausted"]
    /\ UNCHANGED <<timer, delays, retries, attempts, exited, exitCode>>

ExhaustReturns(i) ==
    /\ log' = [log EXCEPT ![i] = @ \o <<ErrorLine, FatalLine>>]
    /\ promise' = [promise EXCEPT ![i] = "resolved"]
    /\ inflight' = [inflight EXCEPT ![i] = @ - 1]
    /\ pc' = [pc EXCEPT ![i] = "Exhausted"]
    /\ UNCHANGED <<timer, delays, retries, attempts, exited, exitCode>>

ExhaustExitsFirst(i) ==
    /\ log' = [log EXCEPT ![i] = Append(@, ErrorLine)]
    /\ exited' = TRUE
    /\ exitCode' = EXIT_CODE
    /\ inflight' = [inflight EXCEPT ![i] = @ - 1]
    /\ pc' = [pc EXCEPT ![i] = "Exhausted"]
    /\ UNCHANGED <<timer, delays, retries, attempts, promise>>

\* lines 14, 22-23: the error and the terminal message are logged and
\* process.exit(1) is called; it never returns, so the promise of the
\* invocation stays pending and nothing of the process runs afterwards
Exhaust(i) ==
    /\ log' = [log EXCEPT ![i] = @ \o <<ErrorLine, FatalLine>>]
    /\ exited' = TRUE
    /\ exitCode' = EXIT_CODE
    /\ inflight' = [inflight EXCEPT ![i] = @ - 1]
    /\ pc' = [pc EXCEPT ![i] = "Exhausted"]
    /\ UNCHANGED <<timer, delays, retries, attempts, promise>>

\* lines 13-23: mongoose.connect rejects and the catch block runs
ConnectRejects(i) ==
    /\ ~exited
    /\ pc[i] = "Attempting"
    /\ inflight[i] > 0
    /\ outcomes' = [outcomes EXCEPT ![i] = Append(@, Outcome("fail", retries[i]))]
    /\ IF ShouldRetry(retries[i]) THEN ScheduleRetry(i) ELSE Exhaust(i)
    /\ UNCHANGED <<budget, elapsed, hostTurns>>
    /\ UNCHANGED dispatchVars

DelayElapsedSharedCounter(i) ==
    /\ ~exited
    /\ pc[i] = "Retrying"
    /\ timer[i] > 0
    /\ timer' = [timer EXCEPT ![i] = 0]
    /\ elapsed' = [elapsed EXCEPT ![i] = @ + 1]
    /\ retries' = [j \in Invocations |-> NextRetries(retries[j])]
    /\ attempts' = [attempts EXCEPT ![i] = @ + 1]
    /\ inflight' = [inflight EXCEPT ![i] = @ + 1]
    /\ pc' = [pc EXCEPT ![i] = "Attempting"]
    /\ UNCHANGED <<budget, outcomes, promise, delays, log, exited, exitCode,
                   hostTurns>>
    /\ UNCHANGED dispatchVars

\* lines 18-19 and 7-9: the timer fires and resolves the awaited promise; the
\* continuation calls connectDB(retries - 1), whose body issues the next
\* mongoose.connect
DelayElapsed(i) ==
    /\ ~exited
    /\ pc[i] = "Retrying"
    /\ timer[i] > 0
    /\ timer' = [timer EXCEPT ![i] = 0]
    /\ elapsed' = [elapsed EXCEPT ![i] = @ + 1]
    /\ retries' = [retries EXCEPT ![i] = NextRetries(@)]
    /\ attempts' = [attempts EXCEPT ![i] = @ + 1]
    /\ inflight' = [inflight EXCEPT ![i] = @ + 1]
    /\ pc' = [pc EXCEPT ![i] = "Attempting"]
    /\ UNCHANGED <<budget, outcomes, promise, delays, log, exited, exitCode,
                   hostTurns>>
    /\ UNCHANGED dispatchVars

\* lines 9 and 18: both waits are awaits, so between the actions above the
\* event loop is free to run any other task of the process, until
\* process.exit (line 23) stops the process
HostTask ==
    /\ ~exited
    /\ hostTurns < MaxHostTurns
    /\ hostTurns' = hostTurns + 1
    /\ UNCHANGED <<pc, budget, retries, attempts, inflight, outcomes, promise,
                   timer, delays, elapsed, log, exited, exitCode>>
    /\ UNCHANGED dispatchVars

Step(i) ==
    \/ Call(i)
    \/ ConnectResolves(i)
    \/ ConnectRejects(i)
    \/ DelayElapsed(i)

\* process startup makes one invocation
Next ==
    \/ Step(Main)
    \/ HostTask

Spec == Init /\ [][Next]_vars

\* every mongoose.connect call settles and every timer fires
FairSpec ==
    /\ Spec
    /\ WF_vars(ConnectResolves(Main) \/ ConnectRejects(Main))
    /\ WF_vars(DelayElapsed(Main))

\* connectDB is an exported function: any number of callers may invoke it
\* while earlier invocations are still running
OverlapNext ==
    \/ \E i \in Invocations : Step(i)
    \/ HostTask

OverlapSpec == Init /\ [][OverlapNext]_vars

TypeOK ==
    /\ pc \in [Invocations -> States]
    /\ budget \in [Invocations -> Budgets]
    /\ retries \in [Invocations -> Int]
    /\ attempts \in [Invocations -> Nat]
    /\ inflight \in [Invocations -> Nat]
    /\ promise \in [Invocations -> {"none", "pending", "resolved", "rejected"}]
    /\ timer \in [Invocations -> Nat]
    /\ elapsed \in [Invocations -> Nat]
    /\ exited \in BOOLEAN
    /\ exitCode \in Nat
    /\ hostTurns \in 0..MaxHostTurns

(***************************************************************************)
(* The two command dispatchers, Makefile and Makefile.ps1.  A run of a     *)
(* dispatcher is a function from its command line (command, Mode, Service, *)
(* Args) to the sequence of commands it issues; a command is the sequence  *)
(* of its words.  Output redirections and echo lines are left out.         *)
(***************************************************************************)
COMPOSE_FILE_DEV == "docker/compose.development.yaml"
COMPOSE_FILE_PROD == "docker/compose.production.yaml"

\* a parameter that is not given on the command line
NotGiven == "<not given>"

Commands ==
    { "help", "up", "down", "build", "logs", "restart", "shell", "ps", "status",
      "dev-up", "dev-down", "dev-build", "dev-logs", "dev-restart", "dev-shell",
      "dev-ps", "prod-up", "prod-down", "prod-build", "prod-logs",
      "prod-restart", "backend-shell", "gateway-shell", "mongo-shell",
      "backend-build", "backend-install", "backend-type-check", "backend-dev",
      "db-reset", "db-backup", "clean", "clean-all", "clean-volumes", "health" }
Modes == {"dev", "prod"}
ServiceArgs == {NotGiven, "gateway"}

\* Makefile 16-22 and Makefile.ps1 41-47: the same test in both
ComposeFile(mode) ==
    IF mode = "prod" THEN COMPOSE_FILE_PROD ELSE COMPOSE_FILE_DEV
ContainerSuffix(mode) == IF mode = "prod" THEN "-prod" ELSE "-dev"

\* the words an ARGS / $Args string adds to a command: none when it is empty
ArgWords(a) == IF a = "" THEN <<>> ELSE <<a>>

Compose(file, words) == <<"docker", "compose", "-f", file>> \o words
ShellIn(container) == <<"docker", "exec", "-it", container, "/bin/sh">>
MongoShellIn(container) ==
    <<"docker", "exec", "-it", container, "mongosh", "-u", "admin", "-p",
      "password123", "--authenticationDatabase", "admin">>
MongoDumpIn(container) ==
    <<"docker", "exec", container, "mongodump", "--username", "admin",
      "--password", "password123", "--authenticationDatabase", "admin",
      "--archive", "--gzip">>
HealthPs(suffix) ==
    <<"docker", "ps", "--filter", "name=gateway" \o suffix,
      "--filter", "name=backend" \o suffix, "--filter", "name=mongo" \o suffix,
      "--format", "table {{.Names}}\t{{.Status}}">>
Npm(words) == <<"npm">> \o words
CleanDown == << Compose(COMPOSE_FILE_DEV, <<"down">>),
                Compose(COMPOSE_FILE_PROD, <<"down">>) >>
CleanAllDown ==
    << Compose(COMPOSE_FILE_DEV, <<"down", "-v", "--rmi", "all">>),
       Compose(COMPOSE_FILE_PROD, <<"down", "-v", "--rmi", "all">>) >>
CleanVolumes ==
    << <<"docker", "volume", "rm", "docker_mongo-data-dev",
         "docker_mongo-data-prod">> >>
ResetCommands(mode) ==
    << Compose(ComposeFile(mode), <<"down", "-v">>),
       <<"docker", "volume", "rm", "docker_mongo-data" \o ContainerSuffix(mode)>> >>

\* ---- Makefile ----
\* Makefile 10: SERVICE ?= backend
MakeService(service) == IF service = NotGiven THEN "backend" ELSE service

\* Makefile 90-113: the recipes of the basic targets
MakeRecipe(target, mode, service, args) ==
    CASE target = "up" ->
            << Compose(ComposeFile(mode), <<"up", "-d">> \o ArgWords(args)) >>
      [] target = "down" ->
            << Compose(ComposeFile(mode), <<"down">> \o ArgWords(args)) >>
      [] target = "build" ->
            << Compose(ComposeFile(mode), <<"build">> \o ArgWords(args)) >>
      [] target = "logs" ->
            IF MakeService(service) # ""
            THEN << Compose(ComposeFile(mode),
                            <<"logs", "-f", MakeService(service)>>) >>
            ELSE << Compose(ComposeFile(mode), <<"logs", "-f">>) >>
      [] target = "restart" ->
            << Compose(ComposeFile(mode), <<"restart">> \o ArgWords(args)) >>
      [] target = "shell" ->
            << ShellIn(MakeService(service) \o ContainerSuffix(mode)) >>
      [] target = "ps" ->
            << Compose(ComposeFile(mode), <<"ps">>) >>

\* Makefile 28-212: every target; $(MAKE) runs a basic target with the
\* variables given on its command line overriding the inherited ones, and a
\* prerequisite (status: ps, clean-all: clean) runs before the recipe
MakeTarget(cmd, mode, service, args) ==
    CASE cmd \in {"up", "down", "build", "logs", "restart", "shell", "ps"} ->
            MakeRecipe(cmd, mode, service, args)
      [] cmd = "help" -> <<>>
      [] cmd = "status" -> MakeRecipe("ps", mode, service, args)
      [] cmd = "dev-up" -> MakeRecipe("up", "dev", service, args)
      [] cmd = "dev-down" -> MakeRecipe("down", "dev", service, args)
      [] cmd = "dev-build" -> MakeRecipe("build", "dev", service, args)
      [] cmd = "dev-logs" -> MakeRecipe("logs", "dev", service, args)
      [] cmd = "dev-restart" -> MakeRecipe("restart", "dev", service, args)
      [] cmd = "dev-shell" -> MakeRecipe("shell", "dev", "backend", args)
      [] cmd = "dev-ps" -> MakeRecipe("ps", "dev", service, args)
      [] cmd = "prod-up" -> MakeRecipe("up", "prod", service, "--build")
      [] cmd = "prod-down" -> MakeRecipe("down", "prod", service, args)
      [] cmd = "prod-build" -> MakeRecipe("build", "prod", service, args)
      [] cmd = "prod-logs" -> MakeRecipe("logs", "prod", service, args)
      [] cmd = "prod-restart" -> MakeRecipe("restart", "prod", service, args)
      [] cmd = "backend-shell" -> MakeRecipe("shell", mode, "backend", args)
      [] cmd = "gateway-shell" -> MakeRecipe("shell", mode, "gateway", args)
      [] cmd = "mongo-shell" ->
            << MongoShellIn("mongo" \o ContainerSuffix(mode)) >>
      [] cmd = "backend-build" -> << Npm(<<"run", "build">>) >>
      [] cmd = "backend-install" -> << Npm(<<"install">>) >>
      [] cmd = "backend-type-check" -> << Npm(<<"run", "type-check">>) >>
      [] cmd = "backend-dev" -> << Npm(<<"run", "dev">>) >>
      [] cmd = "db-reset" -> ResetCommands(mode)
      [] cmd = "db-backup" -> << MongoDumpIn("mongo" \o ContainerSuffix(mode)) >>
      [] cmd = "clean" -> CleanDown
      [] cmd = "clean-all" -> CleanDown \o CleanAllDown
      [] cmd = "clean-volumes" -> CleanVolumes
      [] cmd = "health" -> << HealthPs(ContainerSuffix(mode)) >>

\* ---- Makefile.ps1 ----
\* Makefile.ps1 32: [string]$Service = ""
PsService(service) == IF service = NotGiven THEN "" ELSE service

\* Makefile.ps1 111-121: Invoke-DockerCompose
InvokeDockerCompose(file, action, additionalArgs) ==
    Compose(file, action \o ArgWords(additionalArgs))

\* Makefile.ps1 124-296: the command routing switch
PsCommand(cmd, mode, service, args) ==
    CASE cmd = "help" -> <<>>
      [] cmd = "up" ->
            << InvokeDockerCompose(ComposeFile(mode), <<"up", "-d">>, args) >>
      [] cmd = "down" ->
            << InvokeDockerCompose(ComposeFile(mode), <<"down">>, args) >>
      [] cmd = "build" ->
            << InvokeDockerCompose(ComposeFile(mode), <<"build">>, args) >>
      [] cmd = "restart" ->
            << InvokeDockerCompose(ComposeFile(mode), <<"restart">>, args) >>
      [] cmd \in {"ps", "status"} ->
            << InvokeDockerCompose(ComposeFile(mode), <<"ps">>, "") >>
      [] cmd = "logs" ->
            IF PsService(service) # ""
            THEN << InvokeDockerCompose(ComposeFile(mode),
                        <<"logs", "-f", PsService(service)>>, "") >>
            ELSE << InvokeDockerCompose(ComposeFile(mode), <<"logs", "-f">>, "") >>
      [] cmd = "shell" ->
            << ShellIn((IF PsService(service) # "" THEN PsService(service)
                        ELSE "backend") \o ContainerSuffix(mode)) >>
      [] cmd = "dev-up" ->
            << InvokeDockerCompose(COMPOSE_FILE_DEV, <<"up", "-d">>, "") >>
      [] cmd = "dev-down" ->
            << InvokeDockerCompose(COMPOSE_FILE_DEV, <<"down">>, "") >>
      [] cmd = "dev-build" ->
            << InvokeDockerCompose(COMPOSE_FILE_DEV, <<"build">>, "") >>
      [] cmd = "dev-logs" ->
            << InvokeDockerCompose(COMPOSE_FILE_DEV, <<"logs", "-f">>, "") >>
      [] cmd = "dev-restart" ->
            << InvokeDockerCompose(COMPOSE_FILE_DEV, <<"restart">>, "") >>
      [] cmd = "dev-shell" -> << ShellIn("backend-dev") >>
      [] cmd = "dev-ps" ->
            << InvokeDockerCompose(COMPOSE_FILE_DEV, <<"ps">>, "") >>
      [] cmd = "prod-up" ->
            << InvokeDockerCompose(COMPOSE_FILE_PROD, <<"up", "-d">>, "--build") >>
      [] cmd = "prod-down" ->
            << InvokeDockerCompose(COMPOSE_FILE_PROD, <<"down">>, "") >>
      [] cmd = "prod-build" ->
            << InvokeDockerCompose(COMPOSE_FILE_PROD, <<"build">>, "") >>
      [] cmd = "prod-logs" ->
            << InvokeDockerCompose(COMPOSE_FILE_PROD, <<"logs", "-f">>, "") >>
      [] cmd = "prod-restart" ->
            << InvokeDockerCompose(COMPOSE_FILE_PROD, <<"restart">>, "") >>
      [] cmd = "backend-shell" ->
            << ShellIn("backend" \o ContainerSuffix(mode)) >>
      [] cmd = "gateway-shell" ->
            << ShellIn("gateway" \o ContainerSuffix(mode)) >>
      [] cmd = "mongo-shell" ->
            << MongoShellIn("mongo" \o ContainerSuffix(mode)) >>
      [] cmd = "backend-build" -> << Npm(<<"run", "build">>) >>
      [] cmd = "backend-install" -> << Npm(<<"install">>) >>
      [] cmd = "backend-type-check" -> << Npm(<<"run", "type-check">>) >>
      [] cmd = "backend-dev" -> << Npm(<<"run", "dev">>) >>
      [] cmd = "db-reset" ->
            << InvokeDockerCompose(ComposeFile(mode), <<"down">>, "-v"),
               <<"docker", "volume", "rm",
                 "docker_mongo-data" \o ContainerSuffix(mode)>> >>
      [] cmd = "db-backup" -> << MongoDumpIn("mongo" \o ContainerSuffix(mode)) >>
      [] cmd = "clean" -> CleanDown
      [] cmd = "clean-all" -> CleanAllDown
      [] cmd = "clean-volumes" -> CleanVolumes
      [] cmd = "health" -> << HealthPs(ContainerSuffix(mode)) >>

\* a user runs `make <cmd> [MODE=..] [SERVICE=..]`; ARGS is left unset and the
\* db-reset prompt is answered in the affirmative
RunMake ==
    /\ \E c \in Commands, m \in Modes, sv \in ServiceArgs :
        /\ makeReq' = [cmd |-> c, mode |-> m, service |-> sv, args |-> ""]
        /\ makeOut' = MakeTarget(c, m, sv, "")
    /\ UNCHANGED <<psReq, psOut>>
    /\ UNCHANGED supervisorVars

\* a user runs `.\Makefile.ps1 <cmd> [-Mode ..] [-Service ..]`; Args is left
\* unset and the db-reset prompt is answered in the affirmative
RunPs ==
    /\ \E c \in Commands, m \in Modes, sv \in ServiceArgs :
        /\ psReq' = [cmd |-> c, mode |-> m, service |-> sv, args |-> ""]
        /\ psOut' = PsCommand(c, m, sv, "")
    /\ UNCHANGED <<makeReq, makeOut>>
    /\ UNCHANGED supervisorVars

DispatchNext ==
    \/ RunMake
    \/ RunPs

DispatchSpec == Init /\ [][DispatchNext]_vars

\* ---- auxiliary definitions for the properties ----
Last(s) == s[Len(s)]
Started(i) == pc[i] # "Idle"
AllFailed(i) == \A k \in 1..Len(outcomes[i]) : outcomes[i][k].result = "fail"
IsRetryLine(l) == l.kind = "retry"
RetryLines(i) == SelectSeq(log[i], IsRetryLine)
CountLines(i, l) == Cardinality({k \in 1..Len(log[i]) : log[i][k] = l})
\* failed attempts that happened while retries were remaining
RetriableFailures(i) ==
    {k \in 1..Len(outcomes[i]) :
        outcomes[i][k].result = "fail" /\ outcomes[i][k].remaining > 0}

\* C1: when every connection attempt fails, an invocation started with budget
\* N never makes more than N + 1 connector calls, and the Fatal outcome
\* (process.exit) is raised exactly when the (N+1)-th call has failed.
C1_AllFailExactlyNPlusOne ==
    \A i \in Invocations :
        (Started(i) /\ AllFailed(i)) =>
            /\ attempts[i] <= budget[i] + 1
            /\ (pc[i] = "Exhausted") <=> (Len(outcomes[i]) = budget[i] + 1)
            /\ (pc[i] = "Exhausted") => (attempts[i] = budget[i] + 1 /\ exited)
            /\ (pc[i] # "Exhausted") => CountLines(i, FatalLine) = 0

C1_Witness ==
    /\ pc[Main] = "Exhausted"
    /\ budget[Main] = 2
    /\ attempts[Main] = 3
    /\ exited

\* C2: when attempt k succeeds after k - 1 failures (k <= N + 1), exactly k
\* connector calls have been made, the invocation has returned success, no
\* Fatal has been raised and no further attempt is made.
C2_SuccessAtKStops ==
    \A i \in Invocations :
        \A k \in 1..Len(outcomes[i]) :
            outcomes[i][k].result = "ok" =>
                /\ k = Len(outcomes[i])
                /\ attempts[i] = k
                /\ k <= budget[i] + 1
                /\ inflight[i] = 0
                /\ timer[i] = 0
                /\ pc[i] = "Connected"
                /\ promise[i] = "resolved"
                /\ CountLines(i, FatalLine) = 0
                /\ \A j \in 1..(k - 1) : outcomes[i][j].result = "fail"

C2_Witness ==
    /\ pc[Main] = "Connected"
    /\ budget[Main] = MAX_RETRIES
    /\ attempts[Main] = 3
    /\ ~exited

\* C3: there is no third outcome.  A settled promise means the last attempt
\* succeeded; an exhausted budget means the process has exited with a
\* non-zero status and the promise of the invocation never settles.
C3_NoThirdOutcome ==
    \A i \in Invocations :
        /\ promise[i] \in {"resolved", "rejected"} =>
              /\ pc[i] = "Connected"
              /\ promise[i] = "resolved"
              /\ Len(outcomes[i]) > 0
              /\ Last(outcomes[i]).result = "ok"
        /\ (Len(outcomes[i]) > 0 /\ Last(outcomes[i]).result = "fail"
               /\ Last(outcomes[i]).remaining = 0) =>
              /\ pc[i] = "Exhausted"
              /\ exited
              /\ exitCode # 0
              /\ promise[i] = "pending"

C3_Witness ==
    /\ pc[Main] = "Exhausted"
    /\ exited
    /\ exitCode = EXIT_CODE
    /\ promise[Main] = "pending"
    /\ budget[Main] = 1

\* C4: under fairness of the connector calls and of the delay timers, an
\* invocation that has started eventually is Connected or Exhausted and stays
\* so, whatever the connector outcomes are.
C4_Terminates == (pc[Main] = "Attempting") ~> [](pc[Main] \in Terminal)

C4_Witness ==
    /\ pc[Main] \in Terminal
    /\ budget[Main] = MaxBudget
    /\ attempts[Main] = MaxBudget + 1

\* C5: a connection failure is never propagated to the caller.  The promise
\* of the invocation is never rejected; every failure is logged, and a failure
\* with retries remaining is followed by a retry (the delay, then an attempt).
C5_FailureNotPropagated ==
    \A i \in Invocations :
        /\ promise[i] # "rejected"
        /\ CountLines(i, ErrorLine) =
              Cardinality({k \in 1..Len(outcomes[i]) :
                              outcomes[i][k].result = "fail"})
        /\ \A k \in RetriableFailures(i) :
              \/ k < attempts[i]
              \/ (pc[i] = "Retrying" /\ timer[i] > 0 /\ promise[i] = "pending")

C5_Witness ==
    /\ pc[Main] = "Retrying"
    /\ promise[Main] = "pending"
    /\ Len(outcomes[Main]) = 2
    /\ ~exited

\* C6: the number of delays equals the number of failed attempts that had
\* retries remaining, every delay has the fixed duration RETRY_DELAY, and no
\* delay is pending after a success or after the failure that exhausts the
\* budget.
C6_OneFixedDelayPerRetry ==
    \A i \in Invocations :
        /\ Len(delays[i]) = Cardinality(RetriableFailures(i))
        /\ \A d \in 1..Len(delays[i]) : delays[i][d] = RETRY_DELAY
        /\ timer[i] \in {0, RETRY_DELAY}
        /\ timer[i] > 0 <=> pc[i] = "Retrying"
        /\ elapsed[i] = Len(delays[i]) - (IF timer[i] > 0 THEN 1 ELSE 0)
        /\ pc[i] \in Terminal =>
              Len(delays[i]) = Len(outcomes[i]) - 1

C6_Witness ==
    /\ pc[Main] = "Connected"
    /\ delays[Main] = <<RETRY_DELAY, RETRY_DELAY>>
    /\ elapsed[Main] = 2

\* C7: with a budget of 0 exactly one attempt is made, and if it fails Fatal
\* is raised at once: no delay, no retry line.
C7_ZeroBudget ==
    \A i \in Invocations :
        (Started(i) /\ budget[i] = 0) =>
            /\ attempts[i] = 1
            /\ delays[i] = <<>>
            /\ timer[i] = 0
            /\ Len(RetryLines(i)) = 0
            /\ (Len(outcomes[i]) = 1 /\ outcomes[i][1].result = "fail") =>
                  /\ pc[i] = "Exhausted"
                  /\ exited
                  /\ log[i] = <<ErrorLine, FatalLine>>

C7_Witness ==
    /\ budget[Main] = 0
    /\ pc[Main] = "Exhausted"
    /\ attempts[Main] = 1
    /\ exited

\* C8: the j-th retry line of an invocation reads j / maxRetries, where
\* maxRetries is the budget the invocation was started with.
C8_RetryLineUsesOwnBudget ==
    \A i \in Invocations :
        \A j \in 1..Len(RetryLines(i)) :
            /\ RetryLines(i)[j].num = j
            /\ RetryLines(i)[j].total = budget[i]

\* C9: at most one connection attempt is in flight; a further attempt starts
\* only when the previous one has failed and the delay armed after it has
\* elapsed; while the delay is pending the other tasks of the process can
\* take steps.
C9_Sequential ==
    /\ [](\A i \in Invocations :
            /\ inflight[i] <= 1
            /\ inflight[i] = 1 <=> pc[i] = "Attempting"
            /\ (pc[i] = "Retrying" /\ hostTurns < MaxHostTurns) =>
                  ENABLED HostTask)
    /\ [][\A i \in Invocations :
            (attempts'[i] # attempts[i] /\ attempts[i] >= 1) =>
                /\ attempts'[i] = attempts[i] + 1
                /\ inflight[i] = 0
                /\ Len(outcomes[i]) = attempts[i]
                /\ Last(outcomes[i]).result = "fail"
                /\ timer[i] = RETRY_DELAY
                /\ timer'[i] = 0
                /\ elapsed'[i] = attempts[i]]_vars

C9_Witness ==
    /\ pc[Main] = "Attempting"
    /\ attempts[Main] = 2
    /\ elapsed[Main] = 1
    /\ hostTurns > 0

Transitions ==
    { <<"Idle", "Attempting">>, <<"Attempting", "Connected">>,
      <<"Attempting", "Retrying">>, <<"Retrying", "Attempting">>,
      <<"Attempting", "Exhausted">> }

AttemptFailed(i) ==
    /\ Len(outcomes'[i]) = Len(outcomes[i]) + 1
    /\ Last(outcomes'[i]).result = "fail"

AttemptSucceeded(i) ==
    /\ Len(outcomes'[i]) = Len(outcomes[i]) + 1
    /\ Last(outcomes'[i]).result = "ok"

\* C10: the only transitions of the supervisor are Idle -> Attempting,
\* Attempting -> Connected (success), Attempting -> Retrying (failure with
\* retries remaining), Retrying -> Attempting (delay elapsed) and
\* Attempting -> Exhausted (failure with no retries remaining); Connected and
\* Exhausted are never left, and Exhausted is entered exactly when an attempt
\* fails with no retries remaining.
C10_StateMachine ==
    [][\A i \in Invocations :
        /\ pc'[i] # pc[i] => <<pc[i], pc'[i]>> \in Transitions
        /\ (pc[i] = "Attempting" /\ pc'[i] = "Connected") => AttemptSucceeded(i)
        /\ (pc[i] = "Attempting" /\ pc'[i] = "Retrying") =>
              (AttemptFailed(i) /\ retries[i] > 0)
        /\ (pc[i] = "Retrying" /\ pc'[i] = "Attempting") =>
              (timer[i] > 0 /\ timer'[i] = 0 /\ elapsed'[i] = elapsed[i] + 1)
        /\ (pc[i] # "Exhausted" /\ pc'[i] = "Exhausted") <=>
              (AttemptFailed(i) /\ retries[i] = 0)
        /\ (outcomes'[i] # outcomes[i]) => pc'[i] # pc[i]]_vars

C10_Witness ==
    /\ pc[Main] = "Exhausted"
    /\ budget[Main] = MaxBudget
    /\ Len(outcomes[Main]) = MaxBudget + 1
    /\ elapsed[Main] = MaxBudget

\* ---- the console lines of an invocation ----
Kinds(i) == [k \in 1..Len(log[i]) |-> log[i][k].kind]
CountKind(i, kd) == Cardinality({k \in 1..Len(log[i]) : log[i][k].kind = kd})
Failures(i) == {k \in 1..Len(outcomes[i]) : outcomes[i][k].result = "fail"}

\* the kinds of line one settled attempt is expected to write
KindsOf(o) ==
    IF o.result = "ok" THEN <<"connected">>
    ELSE IF o.remaining > 0 THEN <<"error", "retry">>
    ELSE <<"error", "fatal">>

RECURSIVE ExpectedKinds(_)
ExpectedKinds(os) ==
    IF os = <<>> THEN <<>>
    ELSE ExpectedKinds(SubSeq(os, 1, Len(os) - 1)) \o KindsOf(Last(os))

\* the parts of C11 about the terminal message and the success message
TerminalAndSuccessLines(i) ==
    /\ CountKind(i, "fatal") <= 1
    /\ CountKind(i, "fatal") = 1 <=> pc[i] = "Exhausted"
    /\ pc[i] = "Exhausted" =>
          /\ exited
          /\ Len(log[i]) >= 2
          /\ Last(log[i]) = FatalLine
          /\ log[i][Len(log[i]) - 1] = ErrorLine
    /\ CountKind(i, "connected") <= 1
    /\ CountKind(i, "connected") = 1 <=> pc[i] = "Connected"

\* C11 as stated: every failed attempt, the exhausting one included, writes a
\* line carrying an attempt number and a total (the retry line is the only
\* line of the program that carries them); the terminal message is written
\* exactly once, last, on exhaustion; the success message exactly once and
\* only on a run that ends Connected.
C11_EveryFailureLogsIndex ==
    \A i \in Invocations :
        /\ CountKind(i, "retry") = Cardinality(Failures(i))
        /\ TerminalAndSuccessLines(i)

\* C11 as amended: every failed attempt writes the error line; a failed
\* attempt with retries remaining also writes a retry line carrying an attempt
\* number and a total, the exhausting failure writes the terminal message
\* instead; the terminal message is written exactly once, after the last
\* error line and with the exit; the success message exactly once and only on
\* a run that ends Connected.
C11_LogShape ==
    \A i \in Invocations :
        /\ Kinds(i) = ExpectedKinds(outcomes[i])
        /\ CountKind(i, "error") = Cardinality(Failures(i))
        /\ CountKind(i, "retry") = Cardinality(RetriableFailures(i))
        /\ \A k \in 1..Len(log[i]) :
              log[i][k].kind = "retry" => (log[i][k].num > 0 /\ log[i][k].total > 0)
        /\ TerminalAndSuccessLines(i)

C11_Witness ==
    /\ pc[Main] = "Exhausted"
    /\ budget[Main] = 2
    /\ Kinds(Main) = <<"error", "retry", "error", "retry", "error", "fatal">>

\* C13: for an invocation started with budget N, the counter stays within
\* 0..N and attempts + remaining = N + 1 while an attempt is in flight; the
\* counter changes only by a decrement of 1 on a retry, and a step of one
\* invocation never changes the counter or the attempts of another.
C13_CounterInvariant ==
    /\ [](\A i \in Invocations :
            Started(i) =>
                /\ 0 <= retries[i]
                /\ retries[i] <= budget[i]
                /\ inflight[i] > 0 => attempts[i] + retries[i] = budget[i] + 1)
    /\ [][\A i \in Invocations :
            /\ (Started(i) /\ retries'[i] # retries[i]) =>
                  /\ retries'[i] = retries[i] - 1
                  /\ pc[i] = "Retrying"
                  /\ pc'[i] = "Attempting"
                  /\ budget'[i] = budget[i]
            /\ pc'[i] # pc[i] =>
                  \A j \in Invocations \ {i} :
                      /\ retries'[j] = retries[j]
                      /\ attempts'[j] = attempts[j]
                      /\ budget'[j] = budget[j]]_vars

C13_Witness ==
    /\ \A i \in {1, 2} : pc[i] = "Attempting"
    /\ budget[1] = 3 /\ retries[1] = 1 /\ attempts[1] = 3
    /\ budget[2] = 2 /\ retries[2] = 2 /\ attempts[2] = 1

\* ---- the dispatchers ----
IsDockerCommand(c) == c[1] = "docker"
DockerCommands(out) == SelectSeq(out, IsDockerCommand)
SameRequest ==
    /\ makeReq # NoRequest
    /\ makeReq.cmd = psReq.cmd
    /\ makeReq.mode = psReq.mode
    /\ makeReq.service = psReq.service

\* C12: for every command and every Mode, with Service and Args left at their
\* defaults, make and Makefile.ps1 issue the same docker commands.
C12_DispatchersEquivalent ==
    (SameRequest /\ makeReq.service = NotGiven) =>
        DockerCommands(makeOut) = DockerCommands(psOut)

====
